---- MODULE Spec2Model ----
(***************************************************************************)
(* Elliott Wave Pro: the wave calculator (components/Calculator,           *)
(* CalculatorView) and the interactive chart (components/SmartChart with   *)
(* its parent components/StockAnalyzer).                                   *)
(*                                                                         *)
(* JavaScript numbers are modelled as exact rationals <<n, d>> (d > 0,     *)
(* lowest terms): every value the program computes from decimal inputs by  *)
(* + - * / is the rational the IEEE operation rounds, so equalities here   *)
(* are equalities up to floating-point rounding in the program.            *)
(***************************************************************************)
EXTENDS Integers, Sequences, FiniteSets, Bags, TLC

(***************************************************************************)
(* Bounds of the model.                                                    *)
(***************************************************************************)
\* largest uniform scaling factor tried on the calculator's prices
MaxScale == 3
\* today's day number: the feed has a candle for each of the days 1..LastDay
LastDay == 2
\* most candles one response of the feed holds
MaxBatch == 1
\* most fetchStockData calls awaiting their response at once
MaxFetching == 1
MaxLoads == 2
\* furthest the view is panned left of the first candle, in bars
MaxPanLeft == 6
\* most handleLoadMore calls awaiting their response at once
MaxFetchingMore == 2
\* today's day number of the long feed, which has years of history
HistoryDays == 3200
\* most candles a response of the volume and closing price feeds holds
MaxBars == 4

(***************************************************************************)
(* JavaScript number arithmetic, as exact rationals.                       *)
(***************************************************************************)
Abs(n) == IF n < 0 THEN -n ELSE n

RECURSIVE GCD(_, _)
GCD(a, b) == IF b = 0 THEN a ELSE GCD(b, a % b)

\* the rational n/d (d > 0) in lowest terms
Norm(n, d) == LET g == GCD(Abs(n), d) IN <<n \div g, d \div g>>

\* a whole number as a JavaScript number
Num(n) == <<n, 1>>

RAdd(a, b) ==
    LET L == (a[2] \div GCD(a[2], b[2])) * b[2]
    IN  Norm(a[1] * (L \div a[2]) + b[1] * (L \div b[2]), L)

RNeg(a) == <<-a[1], a[2]>>

RSub(a, b) == RAdd(a, RNeg(b))

RMul(a, b) ==
    LET g1 == GCD(Abs(a[1]), b[2])
        g2 == GCD(Abs(b[1]), a[2])
    IN  Norm((a[1] \div g1) * (b[1] \div g2), (a[2] \div g2) * (b[2] \div g1))

\* a / b for b # 0
RDiv(a, b) ==
    IF b[1] > 0 THEN RMul(a, <<b[2], b[1]>>) ELSE RMul(a, <<-b[2], -b[1]>>)

RLt(a, b) == a[1] * b[2] < b[1] * a[2]
RLe(a, b) == a[1] * b[2] <= b[1] * a[2]

(***************************************************************************)
(* Calculator: constants.                                                  *)
(***************************************************************************)
\* the empty input field, '' in WaveInputs
NoInput == <<>>

\* an absent error, `error: undefined`
undefined == "undefined"

\* the three retracement ratios offered by the ratio selector
FIB_382 == <<191, 500>>
FIB_500 == <<1, 2>>
FIB_618 == <<309, 500>>
FibRatios == {FIB_382, FIB_500, FIB_618}

\* the golden-ratio extension 1.618
GOLDEN == <<809, 500>>

\* the four validation messages
ErrWave1 == "wave-1 high must exceed the start price (P1 > P0)"
ErrWave2Break == "wave-2 low cannot break below the start price (P2 break)"
ErrWave2Retrace == "wave-2 must be a retracement (P2 < P1)"
ErrWave3 == "wave-3 high must exceed P2"

InputNames == {"p0", "p1", "p2", "p3", "current"}

INITIAL_INPUTS ==
    [p0 |-> NoInput, p1 |-> NoInput, p2 |-> NoInput, p3 |-> NoInput,
     current |-> NoInput]

\* the useState initial CalculationResult (its error key is absent)
INITIAL_RESULT ==
    [isValid |-> FALSE, error |-> undefined,
     w1Height |-> Num(0), w2RetracementPct |-> Num(0),
     w3Min |-> Num(0), w3Gold |-> Num(0),
     w4Target |-> Num(0), w5Target |-> Num(0),
     selectedRatio |-> FIB_382, usingManualP3 |-> FALSE]

\* values typed into the calculator's fields: P0..P2, the optional P3, and
\* the current-price reference
Prices == {95, 100, 120, 150}
P3Prices == {100, 200}
CurrentPrices == {150}
InputValues(name) ==
    {NoInput} \cup {Num(v) : v \in (IF name = "p3" THEN P3Prices
                                     ELSE IF name = "current" THEN CurrentPrices
                                     ELSE Prices)}

VARIABLES
    view,       \* App: the view on screen, 'chart' or 'calculator'
    inputs,     \* CalculatorView: WaveInputs
    fibRatio,   \* CalculatorView: selected retracement ratio
    result      \* CalculatorView: CalculationResult

calcVars == <<inputs, fibRatio, result>>

(***************************************************************************)
(* Calculator: the Logic Core effect.                                      *)
(***************************************************************************)
\* setResult(prev => ({ ...prev, isValid: false, error }))
Invalid(prev, err) == [prev EXCEPT !.isValid = FALSE, !.error = err]

W1Height(valP0, valP1) == RSub(valP1, valP0)

\* mutant: the drop is not divided by the wave-1 height
W2RetracementDrop(valP1, valP2, w1Height) ==
    RMul(RSub(valP1, valP2), Num(100))

W2RetracementPct(valP1, valP2, w1Height) ==
    RMul(RDiv(RSub(valP1, valP2), w1Height), Num(100))

W3Min(valP2, w1Height) == RAdd(valP2, w1Height)

\* mutant: the extension uses 0.618 for 1.618
W3GoldShallow(valP2, w1Height) == RAdd(valP2, RMul(w1Height, FIB_618))

W3Gold(valP2, w1Height) == RAdd(valP2, RMul(w1Height, GOLDEN))

\* mutant: the entered P3 is ignored
ActiveW3PeakProjected(valP3, w3Gold) == w3Gold

\* valP3 is NoInput for null
ActiveW3Peak(valP3, w3Gold) == IF valP3 # NoInput THEN valP3 ELSE w3Gold

W4Target(activeW3Peak, valP2, ratio) ==
    LET w3Height == RSub(activeW3Peak, valP2)
    IN  RSub(activeW3Peak, RMul(w3Height, ratio))

\* mutant: wave 5 is projected by the 1.618 extension of wave 1
W5TargetExtended(w4Target, w1Height) ==
    RAdd(w4Target, RMul(w1Height, GOLDEN))

W5Target(w4Target, w1Height) == RAdd(w4Target, w1Height)

UsingManualP3(valP3) == valP3 # NoInput

\* the result the effect stores once the three structure rules have passed
Calculate(in, ratio, prev) ==
    LET valP0 == in.p0
        valP1 == in.p1
        valP2 == in.p2
        valP3 == in.p3
        w1Height == W1Height(valP0, valP1)
        w2RetracementPct == W2RetracementPct(valP1, valP2, w1Height)
        w3Min == W3Min(valP2, w1Height)
        w3Gold == W3Gold(valP2, w1Height)
        activeW3Peak == ActiveW3Peak(valP3, w3Gold)
        w4Target == W4Target(activeW3Peak, valP2, ratio)
        w5Target == W5Target(w4Target, w1Height)
    IN  IF valP3 # NoInput /\ RLe(valP3, valP2)
        THEN Invalid(prev, ErrWave3)
        ELSE [isValid |-> TRUE, error |-> undefined,
              w1Height |-> w1Height, w2RetracementPct |-> w2RetracementPct,
              w3Min |-> w3Min, w3Gold |-> w3Gold,
              w4Target |-> w4Target, w5Target |-> w5Target,
              selectedRatio |-> ratio,
              usingManualP3 |-> UsingManualP3(valP3)]

\* mutant: the break-below-start rule is tested before the wave-1 rule
ValidateBreakFirst(in, ratio, prev) ==
    IF RLe(in.p2, in.p0) THEN Invalid(prev, ErrWave2Break)
    ELSE IF RLe(in.p1, in.p0) THEN Invalid(prev, ErrWave1)
    ELSE IF RLe(in.p1, in.p2) THEN Invalid(prev, ErrWave2Retrace)
    ELSE Calculate(in, ratio, prev)

\* the three structure rules, in the order the effect tests them
Validate(in, ratio, prev) ==
    IF RLe(in.p1, in.p0) THEN Invalid(prev, ErrWave1)
    ELSE IF RLe(in.p2, in.p0) THEN Invalid(prev, ErrWave2Break)
    ELSE IF RLe(in.p1, in.p2) THEN Invalid(prev, ErrWave2Retrace)
    ELSE Calculate(in, ratio, prev)

\* useEffect(() => {...}, [inputs, fibRatio]): the next CalculationResult
LogicCore(in, ratio, prev) ==
    IF in.p0 = NoInput \/ in.p1 = NoInput \/ in.p2 = NoInput
    THEN Invalid(prev, undefined)
    ELSE Validate(in, ratio, prev)

(***************************************************************************)
(* Calculator: state machine.                                              *)
(***************************************************************************)
CalcInit ==
    /\ inputs = INITIAL_INPUTS
    /\ fibRatio = FIB_382
    /\ result = LogicCore(INITIAL_INPUTS, FIB_382, INITIAL_RESULT)

\* an edit of one field, followed by the effect
handleInputChange ==
    \E name \in InputNames :
        \E value \in InputValues(name) :
            /\ view = "calculator"
            /\ inputs' = [inputs EXCEPT ![name] = value]
            /\ result' = LogicCore(inputs', fibRatio, result)
            /\ UNCHANGED fibRatio

\* the effect run with the ratio of the render before the click
setFibRatioStale ==
    \E ratio \in FibRatios :
        /\ view = "calculator"
        /\ fibRatio' = ratio
        /\ result' = LogicCore(inputs, fibRatio, result)
        /\ UNCHANGED inputs

\* a click on the ratio selector, followed by the effect
setFibRatio ==
    \E ratio \in FibRatios :
        /\ view = "calculator"
        /\ fibRatio' = ratio
        /\ result' = LogicCore(inputs, ratio, result)
        /\ UNCHANGED inputs

\* the reset button, followed by the effect
reset ==
    /\ view = "calculator"
    /\ inputs' = INITIAL_INPUTS
    /\ fibRatio' = FIB_382
    /\ result' = LogicCore(INITIAL_INPUTS, FIB_382, result)

(***************************************************************************)
(* Chart: the market data feed and the program constants.                  *)
(***************************************************************************)
\* the symbols of the watchlist, and the texts typed into the symbol field
Targets == {"2330"}
Watchlist == {"2330", "AAPL"}
SymbolTexts == {"", "2330", "aapl"}

\* s[i] of a string
CharAt(s, i) == SubSeq(s, i, i)

Digits == {"0", "1", "2", "3", "4", "5", "6", "7", "8", "9"}
LowerCase == <<"a", "b", "c", "d", "e", "f", "g", "h", "i", "j", "k", "l", "m",
               "n", "o", "p", "q", "r", "s", "t", "u", "v", "w", "x", "y", "z">>
UpperCase == <<"A", "B", "C", "D", "E", "F", "G", "H", "I", "J", "K", "L", "M",
               "N", "O", "P", "Q", "R", "S", "T", "U", "V", "W", "X", "Y", "Z">>

\* s.match(/^\d{4}$/)
MatchFourDigits(s) ==
    Len(s) = 4 /\ \A i \in 1..4 : CharAt(s, i) \in Digits

\* s.includes(c)
Includes(s, c) == \E i \in 1..Len(s) : CharAt(s, i) = c

\* s.toUpperCase(), of a string of ASCII characters
RECURSIVE ToUpperCase(_)
ToUpperCase(s) ==
    IF Len(s) = 0 THEN ""
    ELSE LET c == CharAt(s, 1)
             upper == IF \E k \in 1..26 : LowerCase[k] = c
                      THEN UpperCase[CHOOSE k \in 1..26 : LowerCase[k] = c]
                      ELSE c
         IN  upper \o ToUpperCase(SubSeq(s, 2, Len(s)))

QuerySymbol(targetSymbol) ==
    IF MatchFourDigits(targetSymbol) /\ ~Includes(targetSymbol, ".")
    THEN targetSymbol \o ".TW"
    ELSE ToUpperCase(targetSymbol)

\* the day's candle of the feed; days are numbered 1..LastDay (today)
Low(d) == Num(100 + 10 * d - 15 * (d % 2))
High(d) == RAdd(Low(d), Num(8))
Candle(d) ==
    [date |-> d, high |-> High(d), low |-> Low(d), close |-> High(d),
     volume |-> 1000 * d]

\* the candles of days from..to, ascending (parseYahooData of a response)
ParsedData(from, to) == [i \in 1..(to - from + 1) |-> Candle(from + i - 1)]

MAX_BARS == 3000

\* candles a response of the long feed holds: to a first load (six months
\* and more), and to a request for older history
FirstBatches == {0, 200}
MoreBatches == {0, 2900}

\* the sequences of at most n elements of S
SeqsUpTo(S, n) == UNION {[1..k -> S] : k \in 0..n}

\* responses whose candles differ in their volume (0: the feed had none)
Volumes == {0, 1, 2}
VolumeFeed ==
    {[i \in 1..Len(vs) |-> [Candle(i) EXCEPT !.volume = vs[i]]] :
        vs \in SeqsUpTo(Volumes, MaxBars)}

\* Number(e.target.value) of the volume window field
VolInputs == {Num(0), <<3, 2>>, Num(2), Num(3)}

\* responses whose candles differ in their closing price
Closes == {10, 20, 40}
CloseFeed ==
    {[i \in 1..Len(cs) |->
         [date |-> i, high |-> Num(cs[i]), low |-> Num(cs[i]),
          close |-> Num(cs[i]), volume |-> 0]] :
        cs \in SeqsUpTo(Closes, MaxBars)}

\* Number(e.target.value) of the moving average field
MaInputs == {Num(2), Num(3)}

ErrProxy == "CORS Proxy Error"
ErrNoData == "no data"
\* the TypeError of reading meta.symbol of a quote without meta
ErrNoMeta == "Cannot read properties of undefined (reading 'symbol')"

\* quote.meta of a Yahoo document: absent, or an object with its symbol
NoMeta == [kind |-> "undefined"]
Meta(sym) == [kind |-> "object", symbol |-> sym]

\* rect.width of the chart's svg element
SvgWidth == Num(1000)
RIGHT_AXIS_WIDTH == 50

(***************************************************************************)
(* StockAnalyzer: fetchDataRange, one call followed through its proxies.   *)
(***************************************************************************)
\* chart.result[0] of a Yahoo document: the candles of days first..last, with
\* or without the indicators parseYahooData reads, and with or without meta
Quotes ==
    {[first |-> f, last |-> LastDay, indicators |-> b, meta |-> m] :
        f \in {1, LastDay + 1}, b \in BOOLEAN,
        m \in {NoMeta} \cup {Meta(QuerySymbol(t)) : t \in Targets}}

\* a body that is not JSON, and a Yahoo document with its chart.result
TextBody == [kind |-> "text"]
YahooDoc(res) == [kind |-> "json", result |-> res]
YahooDocs == {YahooDoc(<<>>)} \cup {YahooDoc(<<q>>) : q \in Quotes}

\* the wrapper of allorigins: contents is absent, or a string
NoContents == [kind |-> "none"]
Stringified(doc) == [kind |-> "string", parses |-> TRUE, doc |-> doc]
NotJsonString == [kind |-> "string", parses |-> FALSE]
Wrapper(contents) == [kind |-> "json", contents |-> contents]
Wrappers ==
    {Wrapper(NoContents), Wrapper(NotJsonString)}
        \cup {Wrapper(Stringified(doc)) : doc \in YahooDocs}

\* what fetch(proxyUrl) gives: a rejection, or a response with its ok flag,
\* whose body has not been read
Unread == [kind |-> "unread"]
Rejected == [status |-> "rejected"]
Response(ok) == [status |-> IF ok THEN "ok" ELSE "error", body |-> Unread]
Responses == {Rejected, Response(FALSE), Response(TRUE)}

\* the bodies response.json() reads from the proxies that pass the document
\* on, and from the one that wraps it
DirectBodies == {TextBody} \cup YahooDocs
WrappedBodies == {TextBody} \cup Wrappers

\* the outcome of one try block: a value returned, or control falling
\* through (a condition was false, or something threw and was caught)
FallThrough == [returned |-> FALSE]
Return(value) == [returned |-> TRUE, value |-> value]

\* json.chart?.result?.[0], then return parseYahooData(...)
FromDoc(doc) ==
    IF Len(doc.result) = 0 THEN FallThrough
    ELSE LET quote == doc.result[1]
         IN  IF ~quote.indicators THEN FallThrough
             ELSE Return([parsedData |-> ParsedData(quote.first, quote.last),
                          meta |-> quote.meta])

\* strategies 1 and 3: response.ok, response.json(), the document
DirectTry(response) ==
    IF response.status # "ok" THEN FallThrough
    ELSE IF response.body.kind # "json" THEN FallThrough
    ELSE FromDoc(response.body)

\* strategy 2: response.ok, response.json(), json.contents, JSON.parse
WrappedTry(response) ==
    IF response.status # "ok" THEN FallThrough
    ELSE IF response.body.kind # "json" THEN FallThrough
    ELSE LET contents == response.body.contents
         IN  IF contents.kind = "none" THEN FallThrough
             ELSE IF ~contents.parses THEN FallThrough
             ELSE FromDoc(contents.doc)

\* what a call of fetchDataRange gives its caller: the error it throws after
\* the last proxy, or the candles and meta parseYahooData made of the response
Thrown == [kind |-> "error", message |-> ErrProxy]
Returned(parsedData, meta) ==
    [kind |-> "value", parsedData |-> parsedData, meta |-> meta]

NoValue == [kind |-> "pending"]

VARIABLES
    rangePc,    \* fetchDataRange: the position of the call
    rangeSym,   \* fetchDataRange: sym
    proxyLog,   \* the requests the call sent, with their responses
    rangeValue  \* what the call returned or threw

rangeVars == <<rangePc, rangeSym, proxyLog, rangeValue>>

\* where a specification follows the pointer: clientX of the last mousedown
\* or mousemove, and the candles the layout effect has shifted the view by
\* since that event
VARIABLE pointer

PointerAt(clientX) == [clientX |-> clientX, shifted |-> 0]

RangeInit ==
    /\ rangePc = "idle"
    /\ rangeSym = ""
    /\ proxyLog = <<>>
    /\ rangeValue = NoValue

\* a call starts once the one before has returned or thrown
fetchDataRange ==
    /\ rangePc \in {"idle", "returned", "thrown"}
    /\ \E t \in Targets : rangeSym' = QuerySymbol(t)
    /\ rangePc' = "strategy1"
    /\ proxyLog' = <<>>
    /\ rangeValue' = NoValue

\* the response with the body response.json() has read
WithBody(response, body) == [response EXCEPT !.body = body]

\* the try block of strategies 1 and 3, and of strategy 2, on each body
DirectTries ==
    [body \in DirectBodies |-> DirectTry(WithBody(Response(TRUE), body))]
WrappedTries ==
    [body \in WrappedBodies |-> WrappedTry(WithBody(Response(TRUE), body))]

\* control leaves a try block without a return: the next block, or the
\* throw after the last one
Leave(next) ==
    IF next = "thrown"
    THEN /\ rangePc' = "thrown"
         /\ rangeValue' = Thrown
    ELSE /\ rangePc' = next
         /\ UNCHANGED rangeValue

\* await fetch(proxyUrl) of a try block settles: the block goes on to read
\* the body of a response that is ok, and is left otherwise
Strategy(at, proxy, json, next) ==
    /\ rangePc = at
    /\ \E response \in Responses :
        /\ proxyLog' = Append(proxyLog, [proxy |-> proxy, sym |-> rangeSym,
                                          response |-> response])
        /\ IF response = Response(TRUE)
           THEN rangePc' = json /\ UNCHANGED rangeValue
           ELSE Leave(next)
    /\ UNCHANGED rangeSym

\* await response.json() of a try block settles: the block returns what
\* parseYahooData makes of the document, or is left
Json(at, tries, next) ==
    /\ rangePc = at
    /\ \E body \in DOMAIN tries :
        /\ proxyLog' = [proxyLog EXCEPT ![Len(proxyLog)].response =
                            WithBody(@, body)]
        /\ IF tries[body].returned
           THEN /\ rangePc' = "returned"
                /\ rangeValue' = Returned(tries[body].value.parsedData,
                                          tries[body].value.meta)
           ELSE Leave(next)
    /\ UNCHANGED rangeSym

Strategy1 == Strategy("strategy1", "corsproxy.io", "json1", "strategy2")

\* a well-formed document does not end the call
Json1KeepsTrying ==
    /\ rangePc = "json1"
    /\ \E body \in DirectBodies :
        proxyLog' = [proxyLog EXCEPT ![Len(proxyLog)].response =
                        WithBody(@, body)]
    /\ rangePc' = "strategy2"
    /\ UNCHANGED <<rangeSym, rangeValue>>

Json1 == Json("json1", DirectTries, "strategy2")

Strategy2 == Strategy("strategy2", "allorigins", "json2", "strategy3")

Json2 == Json("json2", WrappedTries, "strategy3")

Strategy3 == Strategy("strategy3", "codetabs", "json3", "thrown")

Json3 == Json("json3", DirectTries, "thrown")

\* setSelection(null), useState<string | null>(null)
null == -1

\* horizontal pointer positions of clicks, drag starts and drag moves
ClickXs == {0, 15, 30, 960}
StartXs == {500}
MoveXs == {400, 600}
PanLeftXs == {600}

\* deltaY of the wheel events, and the finger distances of the two-finger
\* touch events (0: both fingers on one spot)
WheelDeltaYs == {-2000, 2000}
PinchDists == {0, 1, 1000}

\* x / 0 for x > 0
Infinity == <<1, 0>>

VARIABLES
    symbol,         \* StockAnalyzer: text of the symbol input
    loading,        \* StockAnalyzer
    loadingMore,    \* StockAnalyzer
    error,          \* StockAnalyzer
    data,           \* StockAnalyzer: CandleData[]
    displaySymbol,  \* StockAnalyzer
    fetching,       \* fetchStockData calls awaiting fetchDataRange
    fetchingMore,   \* handleLoadMore calls awaiting fetchDataRange (a bag)
    points,         \* SmartChart: ChartPoint[]
    selection,      \* SmartChart: number | null
    offset,         \* SmartChart
    zoom,           \* SmartChart
    isDragging,     \* SmartChart
    dragStartX,     \* SmartChart
    dragStartOffset,\* SmartChart
    prevDataLen,    \* SmartChart: prevDataLen.current
    isPinching,     \* SmartChart
    pinchStartDist, \* SmartChart
    pinchStartZoom, \* SmartChart
    volMALength,    \* SmartChart: the window the volume average is computed with
    inputVolMALength, \* SmartChart: the number in the settings field
    maLength,       \* SmartChart: the window of the moving average
    inputMaLength,  \* SmartChart: the number in the settings field
    granvilleEnabled, \* SmartChart
    chartFibRatio,  \* SmartChart: fibRatio, the selected retracement ratio
    listener,       \* SmartChart: what the onDrag attached to window closes
                    \* over, the values of the render it was created in
    rendered,       \* SmartChart: a render with a new data.length is committed
                    \* and its effects have not run yet
    prepended       \* history: candles the update being rendered put in front
                    \* of the retained ones, -1 when it replaced the sequence

analyzerVars ==
    <<symbol, loading, loadingMore, error, data, displaySymbol, fetching,
      fetchingMore>>
pinchVars == <<isPinching, pinchStartDist, pinchStartZoom>>
settingsVars ==
    <<volMALength, inputVolMALength, maLength, inputMaLength, granvilleEnabled,
      chartFibRatio>>
smartChartVars ==
    <<points, selection, offset, zoom, isDragging, dragStartX,
      dragStartOffset, prevDataLen, pinchVars, settingsVars>>
chartVars ==
    <<analyzerVars, smartChartVars, rendered, prepended, listener>>

vars == <<view, calcVars, chartVars, rangeVars, pointer>>

(***************************************************************************)
(* SmartChart: render.                                                     *)
(***************************************************************************)
Floor(x) == x[1] \div x[2]
Round(x) == Floor(RAdd(x, <<1, 2>>))
Max(a, b) == IF a > b THEN a ELSE b

mounted == Len(data) > 0

\* what an onDrag closes over: the state of SmartChart it reads, and the
\* handleLoadMore passed as onLoadMore with the loadingMore (isLoadingMore),
\* the data (its length and data[0].date) and the displaySymbol it reads
ClosureOf(dragging, pinching, x, o, z, dist, pz, d, more, sym) ==
    [isDragging |-> dragging, isPinching |-> pinching, dragStartX |-> x,
     dragStartOffset |-> o, zoom |-> z, pinchStartDist |-> dist,
     pinchStartZoom |-> pz, dataLength |-> Len(d),
     currentStart |-> IF Len(d) > 0 THEN d[1].date ELSE 0,
     isLoadingMore |-> more, displaySymbol |-> sym]

\* the onDrag of the current render
Closure ==
    ClosureOf(isDragging, isPinching, dragStartX, dragStartOffset, zoom,
              pinchStartDist, pinchStartZoom, data, loadingMore, displaySymbol)

\* the onDrag of the first render of a SmartChart
MountClosure(newData, isLoadingMore, sym) ==
    ClosureOf(FALSE, FALSE, 0, Num(0), Num(60), 0, Num(60), newData,
              isLoadingMore, sym)

\* no SmartChart is mounted: window has no listener
NoListener == MountClosure(<<>>, FALSE, "")

\* isLoadingMore as the listener attached to window reads it
seenLoadingMore == listener.isLoadingMore

FUTURE_BARS == IF Len(points) = 3 THEN 30 ELSE 5

dataDiff == IF Len(data) > prevDataLen THEN Len(data) - prevDataLen ELSE 0

\* a render that draws the stored offset
effectiveOffsetStored == offset

effectiveOffset == RAdd(offset, Num(dataDiff))

Ceil(x) == -Floor(RNeg(x))

\* the first and the last index of the candles that are drawn
visibleStartIndex ==
    Floor(IF RLt(Num(0), effectiveOffset) THEN effectiveOffset ELSE Num(0))
visibleEndIndex ==
    LET last == Ceil(RAdd(effectiveOffset, zoom))
    IN  IF Len(data) - 1 < last THEN Len(data) - 1 ELSE last

\* null of volMA and of maData[i]
NoAverage == <<>>

\* Math.max(1, Math.round(volMALength))
vLen == Max(1, Round(volMALength))

\* sumVol after n rounds of the loop: the volumes of data[i - 1] .. data[i - n]
\* (indexes from 0)
RECURSIVE sumVol(_, _)
sumVol(i, n) == IF n = 0 THEN 0 ELSE sumVol(i, n - 1) + data[i - n + 1].volume

\* an average that takes the bar itself for the first of its vLen bars
volMAInclusive(i) ==
    IF i >= vLen
    THEN RDiv(Num(sumVol(i + 1, vLen)), Num(vLen))
    ELSE NoAverage

volMA(i) ==
    IF i >= vLen
    THEN RDiv(Num(sumVol(i, vLen)), Num(vLen))
    ELSE NoAverage

isVolAnomaly(i) ==
    /\ i >= vLen
    /\ RLe(volMA(i), Num(data[i + 1].volume))

\* sum after n rounds of the loop: the closes of data[i] .. data[i - n + 1]
RECURSIVE sumClose(_, _)
sumClose(i, n) ==
    IF n = 0 THEN Num(0) ELSE RAdd(sumClose(i, n - 1), data[i - n + 2].close)

\* maData[i], for maLength > 0; the loop for (k = 0; k < maLength; k++) makes
\* Math.ceil(maLength) rounds
maData(i) ==
    IF granvilleEnabled /\ RLe(RSub(maLength, Num(1)), Num(i))
    THEN RDiv(sumClose(i, Ceil(maLength)), maLength)
    ELSE NoAverage

NoSignal == "null"

granvilleSignal(i) ==
    IF /\ granvilleEnabled
       /\ RLt(maLength, Num(i))
       /\ maData(i) # NoAverage
       /\ maData(i - 1) # NoAverage
    THEN LET currentMa == maData(i)
             prevMa == maData(i - 1)
             prevPrice == data[i].close
             currPrice == data[i + 1].close
             bias == RDiv(RSub(currPrice, currentMa), currentMa)
             isMaRising == RLt(prevMa, currentMa)
             isMaFalling == RLt(currentMa, prevMa)
         IN  IF ~isMaFalling /\ RLt(prevPrice, prevMa) /\ RLt(currentMa, currPrice)
             THEN "B1"
             ELSE IF ~isMaRising /\ RLt(prevMa, prevPrice) /\ RLt(currPrice, currentMa)
             THEN "S5"
             ELSE IF RLt(bias, <<-1, 5>>)
             THEN "B4"
             ELSE IF RLt(<<1, 5>>, bias)
             THEN "S8"
             ELSE NoSignal
    ELSE NoSignal

\* data.findIndex(d => d.date === date), 0-based, -1 when absent
FindIndex(seq, date) ==
    IF \E i \in 1..Len(seq) : seq[i].date = date
    THEN (CHOOSE i \in 1..Len(seq) :
              /\ seq[i].date = date
              /\ \A j \in 1..(i - 1) : seq[j].date # date) - 1
    ELSE -1

mappedPoints ==
    [i \in 1..Len(points) |->
        LET newIndex == FindIndex(data, points[i].date)
        IN  IF newIndex # -1 THEN [points[i] EXCEPT !.index = newIndex]
            ELSE [points[i] EXCEPT !.index = points[i].index + dataDiff]]

\* useMemo(() => {...}, [mappedPoints, xScale, yScale, fibRatio]): the
\* projected ends of waves 3, 4 and 5, as candle index and price
NoProjection == [kind |-> "null"]

projections ==
    IF Len(mappedPoints) < 3 THEN NoProjection
    ELSE LET p0 == mappedPoints[1]
             p1 == mappedPoints[2]
             p2 == mappedPoints[3]
             w1Height == RSub(p1.price, p0.price)
             w3Target == RAdd(p2.price, RMul(w1Height, GOLDEN))
             w4Target == RSub(w3Target,
                              RMul(RSub(w3Target, p2.price), chartFibRatio))
             w5Target == RAdd(w4Target, w1Height)
             t1 == Abs(p1.index - p0.index)
             t3 == Max(5, Floor(RMul(Num(t1), GOLDEN)))
             t4 == Max(3, t1)
             t5 == Max(5, t1)
             p3Index == p2.index + t3
             p4Index == p3Index + t4
             p5Index == p4Index + t5
         IN  [kind |-> "projection",
              p3 |-> [index |-> p3Index, price |-> w3Target],
              p4 |-> [index |-> p4Index, price |-> w4Target],
              p5 |-> [index |-> p5Index, price |-> w5Target]]

(***************************************************************************)
(* SmartChart: mount, unmount and the data.length effects.                 *)
(***************************************************************************)
\* the state of a SmartChart that is not on screen, and of one just mounted
\* on a sequence of length len (prevDataLen = useRef(data.length))
ChartState(len) ==
    /\ points' = <<>>
    /\ selection' = null
    /\ offset' = Num(0)
    /\ zoom' = Num(60)
    /\ isDragging' = FALSE
    /\ dragStartX' = 0
    /\ dragStartOffset' = Num(0)
    /\ prevDataLen' = len
    /\ isPinching' = FALSE
    /\ pinchStartDist' = 0
    /\ pinchStartZoom' = Num(60)
    /\ volMALength' = Num(5)
    /\ inputVolMALength' = Num(5)
    /\ maLength' = Num(60)
    /\ inputMaLength' = Num(60)
    /\ granvilleEnabled' = FALSE
    /\ chartFibRatio' = FIB_382

\* StockAnalyzer renders with the sequence newData, of which the first k
\* candles were put in front of the retained ones (-1: it was replaced), and
\* with the flag isLoadingMore: SmartChart is mounted (and attaches its
\* listeners), unmounted, or re-rendered
Render(newData, k, isLoadingMore, sym) ==
    IF Len(newData) = 0 \/ ~mounted
    THEN /\ ChartState(Len(newData))
         /\ rendered' = FALSE
         /\ prepended' = 0
         /\ listener' = IF Len(newData) > 0
                        THEN MountClosure(newData, isLoadingMore, sym)
                        ELSE NoListener
    ELSE /\ UNCHANGED <<smartChartVars, listener>>
         /\ rendered' = (Len(newData) # prevDataLen)
         /\ prepended' = IF Len(newData) # prevDataLen THEN k ELSE 0

\* useLayoutEffect(..., [data.length]), then useEffect(..., [data.length]).
\* A layout effect that changes state has the chart rendered again before
\* anything else runs, and the passive effects pending are run ahead of that
\* render: useEffect(..., [onDrag]) attaches the listeners of the committed
\* render. A setOffset of the value offset has is no change of state
Effects ==
    /\ rendered
    /\ IF Len(data) > prevDataLen
       THEN LET diff == Len(data) - prevDataLen
            IN  /\ offset' = RAdd(offset, Num(diff))
                /\ selection' = IF selection # null THEN selection + diff ELSE null
                /\ points' = [i \in 1..Len(points) |->
                                 [points[i] EXCEPT !.index = points[i].index + diff]]
                /\ listener' = Closure
       ELSE IF Len(data) < prevDataLen
       THEN /\ offset' = Num(Max(0, Len(data) - 60))
            /\ listener' = IF offset' # offset THEN Closure ELSE listener
            /\ UNCHANGED <<selection, points>>
       ELSE UNCHANGED <<offset, selection, points, listener>>
    /\ prevDataLen' = Len(data)
    /\ rendered' = FALSE
    /\ prepended' = 0
    /\ UNCHANGED <<analyzerVars, zoom, isDragging, dragStartX, dragStartOffset,
                   pinchVars, settingsVars>>

\* useEffect(..., [onDrag]): the listeners of the last render replace those
\* attached to window
attachListeners ==
    /\ mounted /\ ~rendered
    /\ listener # Closure
    /\ listener' = Closure
    /\ UNCHANGED <<analyzerVars, smartChartVars, rendered, prepended>>

(***************************************************************************)
(* StockAnalyzer.                                                          *)
(***************************************************************************)
AnalyzerInit ==
    /\ symbol = ""
    /\ loading = FALSE
    /\ loadingMore = FALSE
    /\ error = "null"
    /\ data = <<>>
    /\ displaySymbol = ""
    /\ fetching = <<>>
    /\ fetchingMore = EmptyBag

ChartInit ==
    /\ AnalyzerInit
    /\ points = <<>>
    /\ selection = null
    /\ offset = Num(0)
    /\ zoom = Num(60)
    /\ isDragging = FALSE
    /\ dragStartX = 0
    /\ dragStartOffset = Num(0)
    /\ prevDataLen = 0
    /\ isPinching = FALSE
    /\ pinchStartDist = 0
    /\ pinchStartZoom = Num(60)
    /\ volMALength = Num(5)
    /\ inputVolMALength = Num(5)
    /\ maLength = Num(60)
    /\ inputMaLength = Num(60)
    /\ granvilleEnabled = FALSE
    /\ chartFibRatio = FIB_382
    /\ rendered = FALSE
    /\ prepended = 0
    /\ listener = NoListener

\* fetchStockData(e, overrideSymbol) up to its await; overrideSymbol is ""
\* for a form submit (the submit button is disabled while loading)
fetchStockDataWith(overrideSymbol) ==
    /\ view = "chart"
    /\ ~rendered
    /\ LET targetSymbol == IF overrideSymbol # "" THEN overrideSymbol ELSE symbol
       IN  /\ overrideSymbol = "" => ~loading
           /\ targetSymbol # ""
           /\ symbol' = targetSymbol
           /\ loading' = TRUE
           /\ error' = "null"
           /\ data' = <<>>
           /\ displaySymbol' = ""
           /\ fetching' = Append(fetching, QuerySymbol(targetSymbol))
           /\ Render(<<>>, -1, loadingMore, "")
           /\ UNCHANGED <<loadingMore, fetchingMore>>

\* the form is submitted, or the one symbol of the watchlist is clicked
fetchStockData ==
    /\ Len(fetching) < MaxFetching
    /\ \E overrideSymbol \in Targets \cup {""} :
        fetchStockDataWith(overrideSymbol)

\* a symbol of a watchlist of two is clicked; the buttons stay enabled while
\* a load is in flight
watchlistLoad ==
    /\ Len(fetching) < MaxLoads
    /\ \E sym \in Watchlist : fetchStockDataWith(sym)

\* fetching without its r-th call
Settled(r) == [i \in 1..(Len(fetching) - 1) |->
                  IF i < r THEN fetching[i] ELSE fetching[i + 1]]

\* the r-th call of fetchStockData in flight goes on after its await
fetchStockDataThen(r, outcome) ==
    /\ ~rendered
    /\ fetching' = Settled(r)
    /\ loading' = FALSE
    /\ IF outcome.kind = "error"
       THEN /\ error' = outcome.message
            /\ UNCHANGED <<data, displaySymbol, smartChartVars, rendered,
                           prepended, listener>>
       ELSE IF Len(outcome.parsedData) = 0
       THEN /\ error' = ErrNoData
            /\ UNCHANGED <<data, displaySymbol, smartChartVars, rendered,
                           prepended, listener>>
       ELSE /\ data' = outcome.parsedData
            /\ IF outcome.meta = NoMeta
               THEN /\ error' = ErrNoMeta
                    /\ UNCHANGED displaySymbol
                    /\ Render(outcome.parsedData, -1, loadingMore, displaySymbol)
               ELSE /\ displaySymbol' = outcome.meta.symbol
                    /\ UNCHANGED error
                    /\ Render(outcome.parsedData, -1, loadingMore,
                              outcome.meta.symbol)
    /\ UNCHANGED <<symbol, loadingMore, fetchingMore>>

\* quote.meta of the document the feed answers a request for querySymbol
\* with: under the symbol asked, under another symbol, or without meta
OtherSymbol == "TSM"
MetaWays == {"echo", "other", "none"}
FeedMeta(way, querySymbol) ==
    IF way = "echo" THEN Meta(querySymbol)
    ELSE IF way = "other" THEN Meta(OtherSymbol)
    ELSE NoMeta

\* fetchStockData after its await: fetchDataRange threw, or returned a
\* response that parseYahooData turns into one of the sequences in batches
\* and a meta given in one of the ways
fetchStockDataGiven(batches, ways) ==
    \E r \in 1..Len(fetching) :
        \E outcome \in {Thrown} \cup
                {Returned(b, FeedMeta(w, fetching[r])) :
                    b \in batches, w \in ways} :
            fetchStockDataThen(r, outcome)

\* the feed answers under the symbol asked
fetchStockDataAfterAwaitOf(batches) == fetchStockDataGiven(batches, {"echo"})

\* the response holds the n most recent candles of a feed whose last day is
\* last, n in sizes
fetchStockDataAfterAwait(last, sizes) ==
    fetchStockDataAfterAwaitOf({ParsedData(last - n + 1, last) : n \in sizes})

fetchStockDataSettled == fetchStockDataAfterAwait(LastDay, 0..MaxBatch)

fetchVolumesSettled == fetchStockDataAfterAwaitOf(VolumeFeed)

fetchClosesSettled == fetchStockDataAfterAwaitOf(CloseFeed)

\* the same completion, whatever meta the document has
fetchStockDataSettledAnyMeta ==
    fetchStockDataGiven({ParsedData(LastDay - n + 1, LastDay) : n \in 0..MaxBatch},
                        MetaWays)

\* onChange of the symbol field: setSymbol(e.target.value)
setSymbol ==
    /\ view = "chart"
    /\ ~rendered
    /\ \E value \in SymbolTexts : symbol' = value
    /\ UNCHANGED <<loading, loadingMore, error, data, displaySymbol, fetching,
                   fetchingMore, smartChartVars, rendered, prepended,
                   listener>>

\* s without its first n elements
Drop(s, n) == [i \in 1..(Len(s) - n) |-> s[i + n]]

\* parsedData.filter(d => !existingDates.has(d.date))
UniqueNewData(parsedData, prev) ==
    LET existingDates == {prev[i].date : i \in 1..Len(prev)}
        keep(d) == d.date \notin existingDates
    IN  SelectSeq(parsedData, keep)

\* an updater that keeps everything it is given
MergeUntrimmed(parsedData, prev) ==
    UniqueNewData(parsedData, prev) \o prev

\* the updater handleLoadMore passes to setData
Merge(parsedData, prev) ==
    LET combined == UniqueNewData(parsedData, prev) \o prev
    IN  IF Len(combined) > MAX_BARS
        THEN Drop(combined, Len(combined) - MAX_BARS)
        ELSE combined

\* handleLoadMore up to its await, as the closure of the render the
\* listener belongs to: its loadingMore, data and displaySymbol are that
\* render's
handleLoadMore ==
    IF \/ listener.isLoadingMore
       \/ listener.dataLength = 0
       \/ listener.dataLength >= MAX_BARS
    THEN UNCHANGED <<loadingMore, fetchingMore>>
    ELSE /\ BagCardinality(fetchingMore) < MaxFetchingMore
         /\ loadingMore' = TRUE
         /\ fetchingMore' = fetchingMore (+)
                SetToBag({[sym |-> listener.displaySymbol,
                           currentStart |-> listener.currentStart]})

\* the last day of the range the feed answers the request req with: the
\* day before period2 = req.currentStart, or that day when the feed counts
\* its bar into the range
RangeEnd(req, inclusive) ==
    IF inclusive THEN req.currentStart ELSE req.currentStart - 1

\* what fetchDataRange returns to the request req: up to n candles, n in
\* sizes, of the days up to req.currentStart, that day left out or counted
\* in as ends has it
HistoryReturns(req, sizes, ends) ==
    {Returned(ParsedData(Max(1, to - n + 1), to), Meta(req.sym)) :
        to \in {RangeEnd(req, inclusive) : inclusive \in ends}, n \in sizes}

\* what fetchDataRange gives the request req: the proxy error or a return
HistoryOutcomes(req, sizes, ends) ==
    {Thrown} \cup HistoryReturns(req, sizes, ends)

\* the call of handleLoadMore that sent req goes on after its await
handleLoadMoreThen(req, outcome) ==
    /\ ~rendered
    /\ fetchingMore' = fetchingMore (-) SetToBag({req})
    /\ loadingMore' = FALSE
    /\ IF outcome.kind = "value" /\ Len(outcome.parsedData) > 0
       THEN LET merged == Merge(outcome.parsedData, data)
            IN  /\ data' = merged
                /\ Render(merged, Len(merged) - Len(data), FALSE, displaySymbol)
       ELSE UNCHANGED <<data, smartChartVars, rendered, prepended,
                        listener>>
    /\ UNCHANGED <<symbol, loading, error, displaySymbol, fetching>>

\* mutant: setLoadingMore(false) follows the merge instead of standing in
\* a finally block
handleLoadMoreAfterAwaitNoFinally(sizes, ends) ==
    /\ ~rendered
    /\ \E req \in BagToSet(fetchingMore) :
        /\ fetchingMore' = fetchingMore (-) SetToBag({req})
        /\ \/ UNCHANGED <<loadingMore, data, smartChartVars, rendered, prepended,
                         listener>>
           \/ \E to \in {RangeEnd(req, inclusive) : inclusive \in ends} :
              \E n \in sizes :
                LET parsedData == ParsedData(Max(1, to - n + 1), to)
                    merged == Merge(parsedData, data)
                IN  /\ loadingMore' = FALSE
                    /\ IF Len(parsedData) > 0
                       THEN /\ data' = merged
                            /\ Render(merged, Len(merged) - Len(data), FALSE, displaySymbol)
                       ELSE UNCHANGED <<data, smartChartVars, rendered,
                                        prepended, listener>>
    /\ UNCHANGED <<symbol, loading, error, displaySymbol, fetching>>

\* handleLoadMore after its await, for a request in flight and what its
\* fetchDataRange gives
handleLoadMoreAfterAwait(sizes, ends) ==
    \E req \in BagToSet(fetchingMore) :
        \/ handleLoadMoreThen(req, Thrown)
        \/ \E outcome \in HistoryReturns(req, sizes, ends) :
            handleLoadMoreThen(req, outcome)

handleLoadMoreSettled == handleLoadMoreAfterAwait(0..MaxBatch, BOOLEAN)

\* the same two completions on the long feed, which leaves the bar of
\* period2 out
fetchHistorySettled == fetchStockDataAfterAwait(HistoryDays, FirstBatches)
loadMoreHistorySettled == handleLoadMoreAfterAwait(MoreBatches, {FALSE})

(***************************************************************************)
(* SmartChart: handlers.                                                   *)
(***************************************************************************)
\* onMouseDown / onTouchStart with one finger
startDragAt(clientX) ==
    /\ mounted /\ ~rendered
    /\ isDragging' = TRUE
    /\ dragStartX' = clientX
    /\ dragStartOffset' = offset
    /\ UNCHANGED <<analyzerVars, points, selection, offset, zoom, prevDataLen,
                   pinchVars, settingsVars, rendered, prepended, listener>>

startDrag == \E clientX \in StartXs : startDragAt(clientX)

\* onMouseDown={startDrag}: the button goes down, having been up
onMouseDown == ~isDragging /\ startDrag

\* mousemove / touchmove with one finger at clientX
onDragAt(clientX) ==
    /\ mounted /\ ~rendered
    /\ listener.isDragging
    /\ LET deltaX == listener.dragStartX - clientX
           barsPerPixel == RDiv(listener.zoom, SvgWidth)
           deltaBars == RMul(Num(deltaX), barsPerPixel)
           newOffset == RAdd(listener.dragStartOffset, deltaBars)
           rightEdge == Num(listener.dataLength - 5)
       IN  /\ RLe(Num(-MaxPanLeft), newOffset)
           /\ IF RLt(newOffset, Num(-5)) /\ ~listener.isLoadingMore
              THEN handleLoadMore
              ELSE UNCHANGED <<loadingMore, fetchingMore>>
           /\ offset' = IF RLt(rightEdge, newOffset) THEN rightEdge ELSE newOffset
    /\ UNCHANGED <<symbol, loading, error, data, displaySymbol, fetching,
                   points, selection, zoom, isDragging, dragStartX,
                   dragStartOffset, prevDataLen, pinchVars, settingsVars, rendered, prepended,
                   listener>>

\* a move to the right of where the drag started: the view pans left
onDragPanLeft == \E clientX \in PanLeftXs : onDragAt(clientX)

\* mousemove / touchmove with one finger
onDrag == \E clientX \in MoveXs : onDragAt(clientX)

\* the same two events, with the pointer followed
pointerDown ==
    \E clientX \in StartXs :
        startDragAt(clientX) /\ pointer' = PointerAt(clientX)

pointerMove ==
    \E clientX \in MoveXs :
        onDragAt(clientX) /\ pointer' = PointerAt(clientX)

\* a move at the clientX the pointer already has
pointerRest ==
    onDragAt(pointer.clientX) /\ pointer' = PointerAt(pointer.clientX)

\* the effects, with the shift of the layout effect counted
EffectsUnderPointer ==
    /\ Effects
    /\ pointer' = [pointer EXCEPT !.shifted =
                       @ + Max(0, Len(data) - prevDataLen)]

\* mouseup / touchend
stopDrag ==
    /\ mounted /\ ~rendered
    /\ isDragging' = FALSE
    /\ isPinching' = FALSE
    /\ UNCHANGED <<analyzerVars, points, selection, offset, zoom, dragStartX,
                   dragStartOffset, prevDataLen, pinchStartDist, pinchStartZoom,
                   settingsVars, rendered, prepended, listener>>

\* Math.min(x, 300), the lower limit left out
ClampZoomHigh(x) ==
    IF RLt(x, Num(300)) THEN x ELSE Num(300)

\* Math.min(Math.max(15, x), 300); x may be Infinity
ClampZoom(x) ==
    LET atLeast == IF RLt(Num(15), x) THEN x ELSE Num(15)
    IN  IF RLt(atLeast, Num(300)) THEN atLeast ELSE Num(300)

\* wheel over the chart
handleWheel ==
    /\ mounted /\ ~rendered
    /\ \E deltaY \in WheelDeltaYs :
        LET delta == RMul(Num(deltaY), <<1, 20>>)
        IN  zoom' = ClampZoom(RAdd(zoom, delta))
    /\ UNCHANGED <<analyzerVars, points, selection, offset, isDragging, dragStartX,
                   dragStartOffset, prevDataLen, pinchVars, settingsVars, rendered, prepended,
                   listener>>

\* touchstart with two fingers, dist apart
startDragPinch ==
    /\ mounted /\ ~rendered
    /\ \E dist \in PinchDists :
        /\ isDragging' = FALSE
        /\ isPinching' = TRUE
        /\ pinchStartDist' = dist
        /\ pinchStartZoom' = zoom
    /\ UNCHANGED <<analyzerVars, points, selection, offset, zoom, dragStartX,
                   dragStartOffset, prevDataLen, settingsVars, rendered,
                   prepended, listener>>

\* touchmove with two fingers, dist apart
onDragPinch ==
    /\ mounted /\ ~rendered
    /\ listener.isPinching
    /\ \E dist \in PinchDists :
        IF listener.pinchStartDist > 0
        THEN LET scale == IF dist = 0 THEN Infinity
                          ELSE RDiv(Num(listener.pinchStartDist), Num(dist))
                 newZoom == RMul(listener.pinchStartZoom, scale)
             IN  zoom' = ClampZoom(newZoom)
        ELSE UNCHANGED zoom
    /\ UNCHANGED <<analyzerVars, points, selection, offset, isDragging, dragStartX,
                   dragStartOffset, prevDataLen, pinchVars, settingsVars, rendered, prepended,
                   listener>>

\* the number field of the volume settings
setInputVolMALength ==
    /\ mounted /\ ~rendered
    /\ \E value \in VolInputs : inputVolMALength' = value
    /\ UNCHANGED <<analyzerVars, points, selection, offset, zoom, isDragging,
                   dragStartX, dragStartOffset, prevDataLen, pinchVars,
                   volMALength, maLength, inputMaLength, granvilleEnabled, chartFibRatio,
                   rendered, prepended, listener>>

applyVolSettings ==
    /\ mounted /\ ~rendered
    /\ volMALength' = inputVolMALength
    /\ UNCHANGED <<analyzerVars, points, selection, offset, zoom, isDragging,
                   dragStartX, dragStartOffset, prevDataLen, pinchVars,
                   inputVolMALength, maLength, inputMaLength, granvilleEnabled, chartFibRatio,
                   rendered, prepended, listener>>

\* the switch of the Granville settings
setGranvilleEnabled ==
    /\ mounted /\ ~rendered
    /\ granvilleEnabled' = ~granvilleEnabled
    /\ UNCHANGED <<analyzerVars, points, selection, offset, zoom, isDragging,
                   dragStartX, dragStartOffset, prevDataLen, pinchVars,
                   volMALength, inputVolMALength, maLength, inputMaLength, chartFibRatio,
                   rendered, prepended, listener>>

\* the number field of the Granville settings
setInputMaLength ==
    /\ mounted /\ ~rendered
    /\ \E value \in MaInputs : inputMaLength' = value
    /\ UNCHANGED <<analyzerVars, points, selection, offset, zoom, isDragging,
                   dragStartX, dragStartOffset, prevDataLen, pinchVars,
                   volMALength, inputVolMALength, maLength, granvilleEnabled, chartFibRatio,
                   rendered, prepended, listener>>

applyGranvilleSettings ==
    /\ mounted /\ ~rendered
    /\ maLength' = inputMaLength
    /\ UNCHANGED <<analyzerVars, points, selection, offset, zoom, isDragging,
                   dragStartX, dragStartOffset, prevDataLen, pinchVars,
                   volMALength, inputVolMALength, inputMaLength, granvilleEnabled, chartFibRatio,
                   rendered, prepended, listener>>

\* a button of the ratio selector, shown once two pivots are set
setFibRatioChart ==
    /\ mounted /\ ~rendered
    /\ Len(mappedPoints) >= 2
    /\ \E r \in FibRatios : chartFibRatio' = r
    /\ UNCHANGED <<analyzerVars, points, selection, offset, zoom, isDragging,
                   dragStartX, dragStartOffset, prevDataLen, pinchVars,
                   volMALength, inputVolMALength, maLength, inputMaLength,
                   granvilleEnabled, rendered, prepended, listener>>

handleSvgClickAt(x) ==
    /\ mounted /\ ~rendered
    /\ ~(isDragging \/ isPinching)
    /\  LET effectiveZoom == RAdd(zoom, RMul(Num(FUTURE_BARS), RDiv(zoom, Num(60))))
            chartWidthRatio == RDiv(Num(1000 - RIGHT_AXIS_WIDTH), Num(1000))
            clickIndexFloat ==
                RAdd(RMul(RDiv(Num(x), RMul(SvgWidth, chartWidthRatio)),
                          effectiveZoom),
                     effectiveOffset)
            index == Round(clickIndexFloat)
        IN  IF RLt(RMul(SvgWidth, RSub(Num(1), RDiv(Num(RIGHT_AXIS_WIDTH), Num(1000)))),
                   Num(x))
            THEN UNCHANGED selection
            ELSE selection' = IF index >= 0 /\ index < Len(data) THEN index ELSE null
    /\ UNCHANGED <<analyzerVars, points, offset, zoom, isDragging, dragStartX,
                   dragStartOffset, prevDataLen, pinchVars, settingsVars, rendered, prepended,
                   listener>>

handleSvgClick == \E x \in ClickXs : handleSvgClickAt(x)

\* a click on the left edge of the chart
handleSvgClickLeft == handleSvgClickAt(0)

\* selectionData is not null: the selection overlay is rendered
selectionData == selection # null /\ selection >= 0 /\ selection < Len(data)

\* the close button of the selection overlay
clearSelection ==
    /\ mounted /\ ~rendered
    /\ selectionData
    /\ selection' = null
    /\ UNCHANGED <<analyzerVars, points, offset, zoom, isDragging, dragStartX,
                   dragStartOffset, prevDataLen, pinchVars, settingsVars, rendered, prepended,
                   listener>>

\* the undo button is rendered only while there are pivots
handleUndo ==
    /\ mounted /\ ~rendered
    /\ Len(points) > 0
    /\ points' = SubSeq(points, 1, Len(points) - 1)
    /\ selection' = null
    /\ UNCHANGED <<analyzerVars, offset, zoom, isDragging, dragStartX,
                   dragStartOffset, prevDataLen, pinchVars, settingsVars, rendered, prepended,
                   listener>>

\* the clear button is rendered only while there are pivots
handleClear ==
    /\ mounted /\ ~rendered
    /\ Len(points) > 0
    /\ points' = <<>>
    /\ selection' = null
    /\ UNCHANGED <<analyzerVars, offset, zoom, isDragging, dragStartX,
                   dragStartOffset, prevDataLen, pinchVars, settingsVars, rendered, prepended,
                   listener>>

handleResetView ==
    /\ mounted /\ ~rendered
    /\ zoom' = Num(60)
    /\ offset' = Num(Max(0, Len(data) - 60))
    /\ UNCHANGED <<analyzerVars, points, selection, isDragging, dragStartX,
                   dragStartOffset, prevDataLen, pinchVars, settingsVars, rendered, prepended,
                   listener>>

\* a role selector that keeps offering P2
getNextPointTypeRepeating ==
    IF Len(points) = 0 THEN [type |-> "p0", priceType |-> "low"]
    ELSE IF Len(points) = 1 THEN [type |-> "p1", priceType |-> "high"]
    ELSE [type |-> "p2", priceType |-> "low"]

\* "none" once three pivots are set
getNextPointType ==
    IF Len(points) = 0 THEN [type |-> "p0", priceType |-> "low"]
    ELSE IF Len(points) = 1 THEN [type |-> "p1", priceType |-> "high"]
    ELSE IF Len(points) = 2 THEN [type |-> "p2", priceType |-> "low"]
    ELSE [type |-> "none", priceType |-> "none"]

\* a confirmSetPoint that takes the low of the candle for every role
confirmSetPointCalledLow ==
    /\ mounted /\ ~rendered
    /\ LET nextInfo == getNextPointType
       IN  IF selection = null \/ nextInfo.type = "none" \/ selection >= Len(data)
           THEN UNCHANGED <<points, selection>>
           ELSE LET candle == data[selection + 1]
                IN  /\ points' = Append(points,
                                    [index |-> selection, price |-> candle.low,
                                     date |-> candle.date, type |-> nextInfo.type])
                    /\ selection' = null
    /\ UNCHANGED <<analyzerVars, offset, zoom, isDragging, dragStartX,
                   dragStartOffset, prevDataLen, pinchVars, settingsVars, rendered, prepended,
                   listener>>

\* the function confirmSetPoint, called in whatever state the chart is in:
\* data[selection] is undefined for a selection past the end, and reading
\* its price throws before any state is set
confirmSetPointCalled ==
    /\ mounted /\ ~rendered
    /\ LET nextInfo == getNextPointType
       IN  IF selection = null \/ nextInfo.type = "none" \/ selection >= Len(data)
           THEN UNCHANGED <<points, selection>>
           ELSE LET candle == data[selection + 1]
                    price == IF nextInfo.priceType = "high" THEN candle.high
                             ELSE candle.low
                IN  /\ points' = Append(points,
                                    [index |-> selection, price |-> price,
                                     date |-> candle.date, type |-> nextInfo.type])
                    /\ selection' = null
    /\ UNCHANGED <<analyzerVars, offset, zoom, isDragging, dragStartX,
                   dragStartOffset, prevDataLen, pinchVars, settingsVars, rendered, prepended,
                   listener>>

\* onClick={confirmSetPoint} of the button in the selection overlay, which
\* is rendered while a role is left to set
confirmSetPoint ==
    /\ selectionData
    /\ getNextPointType.type # "none"
    /\ confirmSetPointCalled

\* the symbol field and the pivot tools of the chart, with a drag to the left
\* that loads history; the other drag moves are left to ViewportNext
ChartNext ==
    \/ setSymbol /\ UNCHANGED <<view, calcVars, rangeVars, pointer>>
    \/ fetchStockData /\ UNCHANGED <<view, calcVars, rangeVars, pointer>>
    \/ fetchStockDataSettled /\ UNCHANGED <<view, calcVars, rangeVars, pointer>>
    \/ startDrag /\ UNCHANGED <<view, calcVars, rangeVars, pointer>>
    \/ onDragPanLeft /\ UNCHANGED <<view, calcVars, rangeVars, pointer>>
    \/ handleLoadMoreSettled /\ UNCHANGED <<view, calcVars, rangeVars, pointer>>
    \/ Effects /\ UNCHANGED <<view, calcVars, rangeVars, pointer>>
    \/ attachListeners /\ UNCHANGED <<view, calcVars, rangeVars, pointer>>
    \/ handleSvgClick /\ UNCHANGED <<view, calcVars, rangeVars, pointer>>
    \/ clearSelection /\ UNCHANGED <<view, calcVars, rangeVars, pointer>>
    \/ handleUndo /\ UNCHANGED <<view, calcVars, rangeVars, pointer>>
    \/ handleClear /\ UNCHANGED <<view, calcVars, rangeVars, pointer>>
    \/ confirmSetPoint /\ UNCHANGED <<view, calcVars, rangeVars, pointer>>

\* the pan gesture of the chart and the reset of the view, with the
\* listeners window holds; the pivot tools are left to ChartNext
ViewportNext ==
    \/ fetchStockData /\ UNCHANGED <<view, calcVars, rangeVars, pointer>>
    \/ fetchStockDataSettled /\ UNCHANGED <<view, calcVars, rangeVars, pointer>>
    \/ handleLoadMoreSettled /\ UNCHANGED <<view, calcVars, rangeVars, pointer>>
    \/ Effects /\ UNCHANGED <<view, calcVars, rangeVars, pointer>>
    \/ attachListeners /\ UNCHANGED <<view, calcVars, rangeVars, pointer>>
    \/ startDrag /\ UNCHANGED <<view, calcVars, rangeVars, pointer>>
    \/ onDrag /\ UNCHANGED <<view, calcVars, rangeVars, pointer>>
    \/ stopDrag /\ UNCHANGED <<view, calcVars, rangeVars, pointer>>
    \/ handleResetView /\ UNCHANGED <<view, calcVars, rangeVars, pointer>>

\* the pan gesture with the pointer followed, while history is loaded
DragNext ==
    \/ fetchStockData /\ UNCHANGED <<view, calcVars, rangeVars, pointer>>
    \/ fetchStockDataSettled /\ UNCHANGED <<view, calcVars, rangeVars, pointer>>
    \/ handleLoadMoreSettled /\ UNCHANGED <<view, calcVars, rangeVars, pointer>>
    \/ EffectsUnderPointer /\ UNCHANGED <<view, calcVars, rangeVars>>
    \/ attachListeners /\ UNCHANGED <<view, calcVars, rangeVars, pointer>>
    \/ pointerDown /\ UNCHANGED <<view, calcVars, rangeVars>>
    \/ pointerMove /\ UNCHANGED <<view, calcVars, rangeVars>>
    \/ pointerRest /\ UNCHANGED <<view, calcVars, rangeVars>>
    \/ stopDrag /\ UNCHANGED <<view, calcVars, rangeVars, pointer>>

\* the selection on the long feed, while history is loaded: one press and
\* one move to the left per mounted chart, clicks on the left edge
SelectionNext ==
    \/ fetchStockData /\ UNCHANGED <<view, calcVars, rangeVars, pointer>>
    \/ fetchHistorySettled /\ UNCHANGED <<view, calcVars, rangeVars, pointer>>
    \/ onMouseDown /\ UNCHANGED <<view, calcVars, rangeVars, pointer>>
    \/ onDragPanLeft /\ UNCHANGED <<view, calcVars, rangeVars, pointer>>
    \/ loadMoreHistorySettled /\ UNCHANGED <<view, calcVars, rangeVars, pointer>>
    \/ Effects /\ UNCHANGED <<view, calcVars, rangeVars, pointer>>
    \/ attachListeners /\ UNCHANGED <<view, calcVars, rangeVars, pointer>>
    \/ handleResetView /\ UNCHANGED <<view, calcVars, rangeVars, pointer>>
    \/ handleSvgClickLeft /\ UNCHANGED <<view, calcVars, rangeVars, pointer>>

\* the pivots and the ratio selector of the chart, while history is loaded
ProjectionNext ==
    \/ fetchStockData /\ UNCHANGED <<view, calcVars, rangeVars, pointer>>
    \/ fetchStockDataSettled /\ UNCHANGED <<view, calcVars, rangeVars, pointer>>
    \/ startDrag /\ UNCHANGED <<view, calcVars, rangeVars, pointer>>
    \/ onDragPanLeft /\ UNCHANGED <<view, calcVars, rangeVars, pointer>>
    \/ handleLoadMoreSettled /\ UNCHANGED <<view, calcVars, rangeVars, pointer>>
    \/ Effects /\ UNCHANGED <<view, calcVars, rangeVars, pointer>>
    \/ attachListeners /\ UNCHANGED <<view, calcVars, rangeVars, pointer>>
    \/ handleSvgClick /\ UNCHANGED <<view, calcVars, rangeVars, pointer>>
    \/ confirmSetPoint /\ UNCHANGED <<view, calcVars, rangeVars, pointer>>
    \/ setFibRatioChart /\ UNCHANGED <<view, calcVars, rangeVars, pointer>>

\* the zoom gestures
ZoomNext ==
    \/ fetchStockData /\ UNCHANGED <<view, calcVars, rangeVars, pointer>>
    \/ fetchStockDataSettled /\ UNCHANGED <<view, calcVars, rangeVars, pointer>>
    \/ handleWheel /\ UNCHANGED <<view, calcVars, rangeVars, pointer>>
    \/ startDragPinch /\ UNCHANGED <<view, calcVars, rangeVars, pointer>>
    \/ onDragPinch /\ UNCHANGED <<view, calcVars, rangeVars, pointer>>
    \/ stopDrag /\ UNCHANGED <<view, calcVars, rangeVars, pointer>>
    \/ handleResetView /\ UNCHANGED <<view, calcVars, rangeVars, pointer>>
    \/ attachListeners /\ UNCHANGED <<view, calcVars, rangeVars, pointer>>

\* the modes of the pan and the pinch gesture: presses, touches with two
\* fingers, pinch moves and releases in any order
GestureNext ==
    \/ fetchStockData /\ UNCHANGED <<view, calcVars, rangeVars, pointer>>
    \/ fetchStockDataSettled /\ UNCHANGED <<view, calcVars, rangeVars, pointer>>
    \/ startDrag /\ UNCHANGED <<view, calcVars, rangeVars, pointer>>
    \/ startDragPinch /\ UNCHANGED <<view, calcVars, rangeVars, pointer>>
    \/ onDragPinch /\ UNCHANGED <<view, calcVars, rangeVars, pointer>>
    \/ stopDrag /\ UNCHANGED <<view, calcVars, rangeVars, pointer>>
    \/ attachListeners /\ UNCHANGED <<view, calcVars, rangeVars, pointer>>

\* the volume settings on responses with any volumes
VolumeNext ==
    \/ fetchStockData /\ UNCHANGED <<view, calcVars, rangeVars, pointer>>
    \/ fetchVolumesSettled /\ UNCHANGED <<view, calcVars, rangeVars, pointer>>
    \/ setInputVolMALength /\ UNCHANGED <<view, calcVars, rangeVars, pointer>>
    \/ applyVolSettings /\ UNCHANGED <<view, calcVars, rangeVars, pointer>>

\* the Granville settings on responses with any closing prices
GranvilleNext ==
    \/ fetchStockData /\ UNCHANGED <<view, calcVars, rangeVars, pointer>>
    \/ fetchClosesSettled /\ UNCHANGED <<view, calcVars, rangeVars, pointer>>
    \/ setGranvilleEnabled /\ UNCHANGED <<view, calcVars, rangeVars, pointer>>
    \/ setInputMaLength /\ UNCHANGED <<view, calcVars, rangeVars, pointer>>
    \/ applyGranvilleSettings /\ UNCHANGED <<view, calcVars, rangeVars, pointer>>

\* the symbol field, the two ways to start a load, and a feed that answers
\* with any meta
SymbolNext ==
    \/ setSymbol /\ UNCHANGED <<view, calcVars, rangeVars, pointer>>
    \/ fetchStockData /\ UNCHANGED <<view, calcVars, rangeVars, pointer>>
    \/ watchlistLoad /\ UNCHANGED <<view, calcVars, rangeVars, pointer>>
    \/ fetchStockDataSettledAnyMeta /\ UNCHANGED <<view, calcVars, rangeVars, pointer>>
    \/ attachListeners /\ UNCHANGED <<view, calcVars, rangeVars, pointer>>

\* the chart on the long feed: one press per mounted chart, moves to the
\* left that load history, and the reset of the view
HistoryNext ==
    \/ fetchStockData /\ UNCHANGED <<view, calcVars, rangeVars, pointer>>
    \/ fetchHistorySettled /\ UNCHANGED <<view, calcVars, rangeVars, pointer>>
    \/ onMouseDown /\ UNCHANGED <<view, calcVars, rangeVars, pointer>>
    \/ onDragPanLeft /\ UNCHANGED <<view, calcVars, rangeVars, pointer>>
    \/ loadMoreHistorySettled /\ UNCHANGED <<view, calcVars, rangeVars, pointer>>
    \/ Effects /\ UNCHANGED <<view, calcVars, rangeVars, pointer>>
    \/ attachListeners /\ UNCHANGED <<view, calcVars, rangeVars, pointer>>
    \/ handleResetView /\ UNCHANGED <<view, calcVars, rangeVars, pointer>>

(***************************************************************************)
(* The two views of the application; App shows one at a time.              *)
(***************************************************************************)
Views == {"chart", "calculator"}

Init == view = "chart" /\ CalcInit /\ ChartInit /\ RangeInit /\ pointer = PointerAt(0)

\* a tab of the header: the view that leaves the screen is unmounted, and its
\* requests in flight settle on a component that is gone; the view that
\* enters is mounted in its initial state
setView ==
    \E v \in Views :
        /\ view' = v
        /\ UNCHANGED <<rangeVars, pointer>>
        /\ IF v = view
           THEN UNCHANGED <<calcVars, chartVars>>
           ELSE /\ inputs' = INITIAL_INPUTS
                /\ fibRatio' = FIB_382
                /\ result' = LogicCore(INITIAL_INPUTS, FIB_382, INITIAL_RESULT)
                /\ symbol' = ""
                /\ loading' = FALSE
                /\ loadingMore' = FALSE
                /\ error' = "null"
                /\ data' = <<>>
                /\ displaySymbol' = ""
                /\ fetching' = <<>>
                /\ fetchingMore' = EmptyBag
                /\ ChartState(0)
                /\ rendered' = FALSE
                /\ prepended' = 0
                /\ listener' = NoListener

\* the calculator view is shown: the chart is not mounted
CalcNext ==
    \/ setView
    \/ handleInputChange /\ UNCHANGED <<view, chartVars, rangeVars, pointer>>
    \/ setFibRatio /\ UNCHANGED <<view, chartVars, rangeVars, pointer>>
    \/ reset /\ UNCHANGED <<view, chartVars, rangeVars, pointer>>

\* the ratio selectors of the two views
RatioNext ==
    \/ setView
    \/ handleInputChange /\ UNCHANGED <<view, chartVars, rangeVars, pointer>>
    \/ setFibRatio /\ UNCHANGED <<view, chartVars, rangeVars, pointer>>
    \/ reset /\ UNCHANGED <<view, chartVars, rangeVars, pointer>>
    \/ fetchStockData /\ UNCHANGED <<view, calcVars, rangeVars, pointer>>
    \/ fetchStockDataSettled /\ UNCHANGED <<view, calcVars, rangeVars, pointer>>
    \/ handleSvgClick /\ UNCHANGED <<view, calcVars, rangeVars, pointer>>
    \/ confirmSetPoint /\ UNCHANGED <<view, calcVars, rangeVars, pointer>>
    \/ setFibRatioChart /\ UNCHANGED <<view, calcVars, rangeVars, pointer>>
    \/ setSymbol /\ UNCHANGED <<view, calcVars, rangeVars, pointer>>

CalcSpec == Init /\ [][CalcNext]_vars

RatioSpec == Init /\ [][RatioNext]_vars

\* one fetchDataRange after another
FetchRangeNext ==
    \/ fetchDataRange /\ UNCHANGED <<view, calcVars, chartVars, pointer>>
    \/ Strategy1 /\ UNCHANGED <<view, calcVars, chartVars, pointer>>
    \/ Json1 /\ UNCHANGED <<view, calcVars, chartVars, pointer>>
    \/ Strategy2 /\ UNCHANGED <<view, calcVars, chartVars, pointer>>
    \/ Json2 /\ UNCHANGED <<view, calcVars, chartVars, pointer>>
    \/ Strategy3 /\ UNCHANGED <<view, calcVars, chartVars, pointer>>
    \/ Json3 /\ UNCHANGED <<view, calcVars, chartVars, pointer>>

FetchRangeSpec == Init /\ [][FetchRangeNext]_vars

\* loads from a watchlist of two symbols, and the history of the one shown
WatchlistNext ==
    \/ watchlistLoad /\ UNCHANGED <<view, calcVars, rangeVars, pointer>>
    \/ fetchStockDataSettled /\ UNCHANGED <<view, calcVars, rangeVars, pointer>>
    \/ startDrag /\ UNCHANGED <<view, calcVars, rangeVars, pointer>>
    \/ onDragPanLeft /\ UNCHANGED <<view, calcVars, rangeVars, pointer>>
    \/ handleLoadMoreSettled /\ UNCHANGED <<view, calcVars, rangeVars, pointer>>
    \/ Effects /\ UNCHANGED <<view, calcVars, rangeVars, pointer>>
    \/ attachListeners /\ UNCHANGED <<view, calcVars, rangeVars, pointer>>

WatchlistSpec == Init /\ [][WatchlistNext]_vars

ChartSpec == Init /\ [][ChartNext]_vars

DragSpec == Init /\ [][DragNext]_vars

SelectionSpec == Init /\ [][SelectionNext]_vars

ProjectionSpec == Init /\ [][ProjectionNext]_vars

GestureSpec == Init /\ [][GestureNext]_vars

ViewportSpec == Init /\ [][ViewportNext]_vars

HistorySpec == Init /\ [][HistoryNext]_vars

ZoomSpec == Init /\ [][ZoomNext]_vars

VolumeSpec == Init /\ [][VolumeNext]_vars

GranvilleSpec == Init /\ [][GranvilleNext]_vars

SymbolSpec == Init /\ [][SymbolNext]_vars

\* every request of fetchDataRange ends (its fetches resolve or reject), and
\* React runs the effects it has scheduled; both wait only for the
\* synchronous data.length effects of a commit, hence the strong fairness
ViewportFairSpec ==
    /\ ViewportSpec
    /\ SF_vars(handleLoadMoreSettled /\ UNCHANGED <<view, calcVars, rangeVars, pointer>>)
    /\ SF_vars(attachListeners /\ UNCHANGED <<view, calcVars, rangeVars, pointer>>)
    /\ WF_vars(Effects /\ UNCHANGED <<view, calcVars, rangeVars, pointer>>)

(***************************************************************************)
(* Calculator: properties.                                                 *)
(***************************************************************************)
\* P0, P1 and P2 are all entered
Supplied == inputs.p0 # NoInput /\ inputs.p1 # NoInput /\ inputs.p2 # NoInput

\* the entered prices are exactly these (p3 = NoInput for an empty field)
Entered(p0, p1, p2, p3) ==
    /\ inputs.p0 = p0 /\ inputs.p1 = p1 /\ inputs.p2 = p2 /\ inputs.p3 = p3

\* x = n / d, by cross-multiplication
Equals(x, n, d) == x[1] * d = n * x[2]

\* C1: with P0, P1, P2 entered the structure rules are tested in a fixed
\* order and only the first failure is reported: P1 <= P0 gives the wave-1
\* message; else P2 <= P0 gives the wave-2 break-below-start message; else
\* P2 >= P1 gives the wave-2 must-be-a-retracement message; else a supplied
\* P3 <= P2 gives the wave-3 message.  P0=100, P1=150, P2=95 is invalid with
\* the wave-2 break-below-start message.
C1_ValidationOrder ==
    Supplied =>
        LET p0 == inputs.p0
            p1 == inputs.p1
            p2 == inputs.p2
            p3 == inputs.p3
            failed(msg) == ~result.isValid /\ result.error = msg
        IN  /\ ~RLt(p0, p1) => failed(ErrWave1)
            /\ RLt(p0, p1) /\ ~RLt(p0, p2) => failed(ErrWave2Break)
            /\ RLt(p0, p1) /\ RLt(p0, p2) /\ ~RLt(p2, p1)
                    => failed(ErrWave2Retrace)
            /\ RLt(p0, p1) /\ RLt(p0, p2) /\ RLt(p2, p1)
                 /\ p3 # NoInput /\ ~RLt(p2, p3) => failed(ErrWave3)
            /\ p0 = Num(100) /\ p1 = Num(150) /\ p2 = Num(95)
                    => failed(ErrWave2Break)

C1_Witness ==
    /\ inputs.p0 = Num(100) /\ inputs.p1 = Num(150) /\ inputs.p2 = Num(95)
    /\ ~result.isValid
    /\ result.error = ErrWave2Break

\* C2: the CalculationResult is a function of the current inputs and ratio
\* alone.  Typing the same values into a freshly mounted calculator (the
\* optional field and the ratio first) leaves the initial result in place
\* until the last edit, so history-independence requires every reachable
\* result to equal the effect applied to the initial result.
C2_PureFunctionOfInputs ==
    result = LogicCore(inputs, fibRatio, INITIAL_RESULT)

\* C3: every valid result has w4Target = peak - (peak - P2) * r, the peak
\* being P3 when supplied and w3Gold otherwise, and
\* w5Target - w4Target = P1 - P0.
C3_Wave4Wave5Targets ==
    result.isValid =>
        LET peak == IF inputs.p3 # NoInput THEN inputs.p3 ELSE result.w3Gold
            drop == RMul(RSub(peak, inputs.p2), fibRatio)
        IN  /\ RAdd(result.w4Target, drop) = peak
            /\ RSub(result.w5Target, result.w4Target)
                   = RSub(inputs.p1, inputs.p0)

C3_Witness ==
    /\ result.isValid
    /\ fibRatio = FIB_618
    /\ Entered(Num(100), Num(150), Num(120), NoInput)
    /\ result.w4Target = <<754519, 5000>>
    /\ result.w5Target = <<1004519, 5000>>

\* the wave 1-3 figures of a valid result, by cross-multiplication
Wave123Figures ==
    LET p0 == inputs.p0[1]
        p1 == inputs.p1[1]
        p2 == inputs.p2[1]
    IN  /\ Equals(result.w1Height, p1 - p0, 1)
        /\ Equals(result.w2RetracementPct, (p1 - p2) * 100, p1 - p0)
        /\ Equals(result.w3Min, p2 + (p1 - p0), 1)
        /\ Equals(result.w3Gold, 1000 * p2 + 1618 * (p1 - p0), 1000)

\* C4 as stated: every valid result has w1Height = P1 - P0,
\* w2RetracementPct = (P1 - P2) / w1Height * 100, w3Min = P2 + w1Height and
\* w3Gold = P2 + 1.618 * w1Height, and P0=100, P1=150, P2=120 gives
\* w1Height=50, w2RetracementPct=60, w3Min=170, w3Gold=180.9.
C4_Original ==
    result.isValid =>
        /\ Wave123Figures
        /\ Entered(Num(100), Num(150), Num(120), inputs.p3) =>
               /\ result.w1Height = Num(50)
               /\ result.w2RetracementPct = Num(60)
               /\ result.w3Min = Num(170)
               /\ Equals(result.w3Gold, 1809, 10)

\* C4 as amended: the same four formulas, and P0=100, P1=150, P2=120 gives
\* w1Height=50, w2RetracementPct=60, w3Min=170, w3Gold=200.9.
C4_Wave123 ==
    result.isValid =>
        /\ Wave123Figures
        /\ Entered(Num(100), Num(150), Num(120), inputs.p3) =>
               /\ result.w1Height = Num(50)
               /\ result.w2RetracementPct = Num(60)
               /\ result.w3Min = Num(170)
               /\ Equals(result.w3Gold, 2009, 10)

C4_Witness ==
    /\ result.isValid
    /\ Entered(Num(100), Num(150), Num(120), inputs.p3)
    /\ result.w3Min = Num(170)
    /\ Equals(result.w3Gold, 2009, 10)

\* C5: in a valid result the wave-3 peak retraced by wave 4 is P3 when P3
\* is supplied and w3Gold otherwise, and usingManualP3 is true exactly when
\* P3 is supplied; P0=100, P1=150, P2=120, P3=200, r=0.382 gives
\* w3Height=80, w4Target=169.44 and usingManualP3=true.
C5_ActivePeak ==
    result.isValid =>
        LET manual == inputs.p3 # NoInput
            peak == IF manual THEN inputs.p3 ELSE result.w3Gold
            w3Height == RSub(peak, inputs.p2)
        IN  /\ result.usingManualP3 = manual
            /\ result.w4Target = RSub(peak, RMul(w3Height, fibRatio))
            /\ Entered(Num(100), Num(150), Num(120), Num(200))
                 /\ fibRatio = FIB_382
                    => /\ w3Height = Num(80)
                       /\ Equals(result.w4Target, 16944, 100)
                       /\ result.usingManualP3

C5_Witness ==
    /\ result.isValid
    /\ Entered(Num(100), Num(150), Num(120), Num(200))
    /\ fibRatio = FIB_382
    /\ result.usingManualP3
    /\ Equals(result.w4Target, 16944, 100)

\* the positive scaling factors a/b tried on the prices
Scales == {Norm(a, b) : a \in 1..MaxScale, b \in 1..MaxScale}

\* the inputs with every entered price multiplied by k
Scaled(in, k) ==
    [name \in InputNames |->
        IF in[name] = NoInput THEN NoInput ELSE RMul(in[name], k)]

\* C6: for every valid (P0, P1, P2) and every positive factor k the inputs
\* (k*P0, k*P1, k*P2) are valid too and give the same w2RetracementPct.
C6_ScaleInvariance ==
    result.isValid =>
        \A k \in Scales :
            LET scaled == LogicCore(Scaled(inputs, k), fibRatio, INITIAL_RESULT)
            IN  /\ scaled.isValid
                /\ scaled.w2RetracementPct = result.w2RetracementPct

C6_Witness ==
    /\ result.isValid
    /\ Entered(Num(100), Num(150), Num(120), NoInput)
    /\ result.w2RetracementPct = Num(60)
    /\ LogicCore(Scaled(inputs, Norm(MaxScale, 2)), fibRatio,
                 INITIAL_RESULT).w1Height = Norm(50 * MaxScale, 2)

(***************************************************************************)
(* Chart: properties.                                                      *)
(***************************************************************************)
\* C7: whenever P1 is set it lies on a later candle and at a higher price
\* than P0, and whenever P2 is set its price lies strictly between the
\* prices of P0 and P1.
C7_PivotOrder ==
    /\ Len(points) >= 2 =>
          /\ points[2].index > points[1].index
          /\ RLt(points[1].price, points[2].price)
    /\ Len(points) >= 3 =>
          /\ RLt(points[1].price, points[3].price)
          /\ RLt(points[3].price, points[2].price)

PivotRoles == <<"p0", "p1", "p2">>

RolesByPosition ==
    /\ Len(points) <= 3
    /\ \A i \in 1..Len(points) : points[i].type = PivotRoles[i]

\* C8: the pivot list never holds more than three entries, the entry at
\* position i has the role P0, P1, P2 for i = 0, 1, 2, and a confirm with
\* three pivots set leaves the list as it is.
C8_PivotRoles ==
    /\ []RolesByPosition
    /\ [](mounted /\ ~rendered /\ Len(points) = 3 =>
            ~ENABLED <<confirmSetPointCalled>>_points)

\* three pivots are set and a candle is selected: the overlay offers no
\* fourth confirm
C8_Witness == Len(points) = 3 /\ selection # null /\ ~rendered

\* the pivot at position i of pts designates, in the sequence seq, the
\* candle with the pivot's date
Designates(pts, i, seq) ==
    /\ pts[i].index >= 0 /\ pts[i].index < Len(seq)
    /\ seq[pts[i].index + 1].date = pts[i].date

\* C9: when K older candles are put in front of the sequence, the index
\* re-derived from each pivot's date in the render that sees them, and the
\* index the data.length effect stores, both equal the old index + K, and
\* the pivot designates the candle with its date.
C9_Reindexing ==
    /\ [](rendered /\ prepended > 0 =>
            \A i \in 1..Len(points) :
                /\ mappedPoints[i].index = points[i].index + prepended
                /\ Designates(mappedPoints, i, data))
    /\ [][Effects /\ prepended > 0 =>
            \A i \in 1..Len(points) :
                /\ points'[i].index = points[i].index + prepended
                /\ Designates(points', i, data)]_vars

\* C10: in the render that first sees N candles put in front, the offset
\* drawn is the stored offset + N; the data.length effect stores offset + N;
\* and once it has run the offset drawn is the stored one again, so the
\* shift is applied once.
C10_OffsetShift ==
    /\ [](rendered /\ prepended > 0 =>
            effectiveOffset = RAdd(offset, Num(prepended)))
    /\ [](mounted /\ ~rendered => effectiveOffset = offset)
    /\ [][Effects /\ prepended > 0 =>
            offset' = RAdd(offset, Num(prepended))]_vars

\* candles are put in front while the view is panned left of the first
\* candle, and the render has seen them
C10_Witness == rendered /\ prepended > 0 /\ RLt(offset, Num(0))

\* Math.max(0, len - z)
MostRecent(len, z) == IF RLt(Num(len), z) THEN Num(0) ELSE RSub(Num(len), z)

\* C11: when a newly loaded sequence is shown (the first one of a symbol, or
\* one that takes the place of the sequence on screen) and when the sequence
\* shrinks, the offset becomes max(0, data.length - zoom).
C11_OffsetReset ==
    /\ [][data' # data /\ Len(data') > 0 /\ ~rendered' /\ prepended' = 0
            /\ (~mounted \/ Len(data') = Len(data))
            => offset' = MostRecent(Len(data'), zoom')]_vars
    /\ [][Effects /\ (prepended = -1 \/ Len(data) < prevDataLen)
            => offset' = MostRecent(Len(data), zoom)]_vars

\* C12: at no time is more than one history request awaiting its response.
C12_SingleRequest == BagCardinality(fetchingMore) <= 1

\* C13: the completion of a history request clears loadingMore whatever its
\* outcome, so a raised flag is always lowered again, and the listener that
\* reads it is re-attached with the flag down: after a request a pan past
\* the left edge can issue the next one.
C13_FlagCleared ==
    /\ [][handleLoadMoreSettled => ~loadingMore']_vars
    /\ (loadingMore ~> ~loadingMore)
    /\ (seenLoadingMore ~> (~loadingMore /\ ~seenLoadingMore))

\* a request was issued, the listener saw the raised flag, and the request
\* has settled
C13_Witness == mounted /\ ~loadingMore /\ seenLoadingMore

\* C14: zoom is never below 15 and never above 300, whatever wheel, pinch
\* and reset-view events arrive.
C14_ZoomRange == RLe(Num(15), zoom) /\ RLe(zoom, Num(300))

\* a pinch that started with the fingers apart sees them meet, and the zoom
\* is at its upper limit
C14_Witness ==
    /\ isPinching /\ pinchStartDist > 0 /\ RLt(pinchStartZoom, Num(300))
    /\ zoom = Num(300)

\* C15: a drag move leaves the offset at most data.length - 5.
C15_RightClamp ==
    [][onDrag => RLe(offset', Num(Len(data') - 5))]_vars

\* a drag move leaves the offset at most the data.length - 5 of the render
\* its listener belongs to
ClampedToListener ==
    [][onDrag => RLe(offset', Num(listener.dataLength - 5))]_vars

\* C16: with a whole offset >= 0 the candles drawn are the zoom candles from
\* the offset on, as far as the sequence reaches: the first index is the
\* offset and the last is offset + zoom - 1 or, if smaller, length - 1.
C16_VisibleRange ==
    (mounted /\ effectiveOffset[2] = 1 /\ effectiveOffset[1] >= 0 /\ zoom[2] = 1) =>
        /\ visibleStartIndex = effectiveOffset[1]
        /\ visibleEndIndex =
               IF Len(data) - 1 < effectiveOffset[1] + zoom[1] - 1
               THEN Len(data) - 1
               ELSE effectiveOffset[1] + zoom[1] - 1

\* the volumes of the bars lo..hi (indexes from 0), added up
RECURSIVE VolumeTotal(_, _)
VolumeTotal(lo, hi) ==
    IF lo > hi THEN 0 ELSE data[lo + 1].volume + VolumeTotal(lo + 1, hi)

\* C17: with N the window the volume average is computed with, a drawn bar i
\* is flagged exactly when N bars or more precede it and its volume is at
\* least the mean of the volumes of the bars i-N..i-1; a bar with fewer than
\* N bars before it is not flagged and has no volume average.
C17_VolumeAnomaly ==
    mounted =>
        \A i \in visibleStartIndex..visibleEndIndex :
            LET N == vLen
            IN  /\ isVolAnomaly(i) <=>
                       /\ i >= N
                       /\ N * data[i + 1].volume >= VolumeTotal(i - N, i - 1)
                /\ i < N => (~isVolAnomaly(i) /\ volMA(i) = NoAverage)
                /\ i >= N => volMA(i) # NoAverage

\* a window of two bars was applied; one bar is flagged with a volume equal to
\* the mean of the two before it and below the mean that includes itself,
\* and an earlier bar has no average
C17_Witness ==
    /\ mounted /\ volMALength = Num(2) /\ Len(data) = MaxBars
    /\ isVolAnomaly(2) /\ volMA(2) = Num(data[3].volume)
    /\ data[2].volume > data[3].volume
    /\ volMA(1) = NoAverage

\* the mean of the closes of the n bars that end with bar i, defined when
\* the sequence holds them
MeanClose(i, n) ==
    IF i - n + 1 >= 0 THEN RDiv(sumClose(i, n), Num(n)) ELSE NoAverage

\* C18: a drawn bar whose moving average (over a whole window) is defined at
\* the bar and at its predecessor carries the first of breakout-up,
\* breakdown-down, oversold and overbought whose condition it meets, and no
\* signal if it meets none; a bar with the average undefined at it or at its
\* predecessor carries none.
C18_SignalPriority ==
    (mounted /\ granvilleEnabled /\ maLength[2] = 1) =>
        \A i \in visibleStartIndex..visibleEndIndex :
            LET n == maLength[1]
                ma == MeanClose(i, n)
                prevMa == IF i >= 1 THEN MeanClose(i - 1, n) ELSE NoAverage
            IN  IF ma = NoAverage \/ prevMa = NoAverage
                THEN granvilleSignal(i) = NoSignal
                ELSE LET price == data[i + 1].close
                         prevPrice == data[i].close
                         up == /\ RLe(prevMa, ma)
                               /\ RLt(prevPrice, prevMa) /\ RLt(ma, price)
                         down == /\ RLe(ma, prevMa)
                                 /\ RLt(prevMa, prevPrice) /\ RLt(price, ma)
                         oversold == RLt(RMul(price, Num(5)), RMul(ma, Num(4)))
                         overbought == RLt(RMul(ma, Num(6)), RMul(price, Num(5)))
                     IN  granvilleSignal(i) =
                             IF up THEN "B1"
                             ELSE IF down THEN "S5"
                             ELSE IF oversold THEN "B4"
                             ELSE IF overbought THEN "S8"
                             ELSE NoSignal

\* C19: the dates of the retained candles ascend strictly, so no date occurs
\* twice.
C19_Ascending ==
    \A i \in 1..(Len(data) - 1) : data[i].date < data[i + 1].date

\* the completion of a history request leaves at most MAX_BARS candles; the
\* candles retained before it are all kept, as the end of the new sequence;
\* the candles put in front of them are days without a gap that reach up to
\* the requested range's last day, but for days already retained (what was
\* cut off is the oldest part of the response)
TrimsOldest ==
    [][loadMoreHistorySettled =>
            LET k == Len(data') - Len(data)
                retained == {data[i].date : i \in 1..Len(data)}
            IN  /\ Len(data') <= MAX_BARS
                /\ k >= 0
                /\ \A i \in 1..Len(data) : data'[k + i] = data[i]
                /\ \A i \in 1..(k - 1) : data'[i + 1].date = data'[i].date + 1
                /\ k > 0 =>
                       \E req \in BagToSet(fetchingMore) :
                           /\ fetchingMore' = fetchingMore (-) SetToBag({req})
                           /\ data'[k].date <= req.currentStart
                           /\ \A d \in (data'[k].date + 1)..(req.currentStart - 1) :
                                  d \in retained]_vars

\* 2900 older candles met 200 retained ones: the oldest 100 were cut off
Trimmed ==
    /\ Len(data) = MAX_BARS
    /\ data[1].date = HistoryDays - MAX_BARS + 1
    /\ data[MAX_BARS].date = HistoryDays

\* C20: the completion of a history request leaves at most MAX_BARS candles,
\* keeps every retained candle and cuts only the oldest ones off; no history
\* request is issued when MAX_BARS candles or more are retained.
C20_MaxRetained ==
    /\ TrimsOldest
    /\ [][Len(data) >= MAX_BARS =>
            BagCardinality(fetchingMore') <= BagCardinality(fetchingMore)]_vars

\* the sequence was trimmed to MAX_BARS candles, and a move then panned
\* past the left edge without a request being issued
C20_Witness ==
    /\ Trimmed /\ ~rendered
    /\ listener.dataLength = MAX_BARS
    /\ RLt(offset, Num(-5))
    /\ ~loadingMore /\ fetchingMore = EmptyBag

\* C21: the ratio selected in the calculator and the ratio selected in the
\* chart are each one of 0.382, 0.5 and 0.618, and a valid result of the
\* calculator carries the ratio selected in the calculator.
C21_RatioSet ==
    /\ fibRatio \in FibRatios
    /\ chartFibRatio \in FibRatios
    /\ result.isValid => result.selectedRatio = fibRatio

C21_Witness ==
    /\ view = "calculator"
    /\ result.isValid
    /\ fibRatio = FIB_618
    /\ result.selectedRatio = FIB_618

\* the proxies in the order fetchDataRange names them
ProxyOrder == <<"corsproxy.io", "allorigins", "codetabs">>

\* a response the proxy's try block returns a value from
WellFormed(entry) ==
    IF entry.proxy = "allorigins" THEN WrappedTry(entry.response).returned
    ELSE DirectTry(entry.response).returned

\* a response whose body the try block is still reading
Reading(entry) ==
    entry.response.status = "ok" /\ entry.response.body = Unread

\* a request that failed, or whose response the try block found malformed
Failed(entry) == ~Reading(entry) /\ ~WellFormed(entry)

\* the Yahoo document of a well-formed response
DocOf(entry) ==
    IF entry.proxy = "allorigins" THEN entry.response.body.contents.doc
    ELSE entry.response.body

\* C22: a call requests the proxies in the order corsproxy.io, allorigins,
\* codetabs, each at most once; a proxy is requested only after every earlier
\* one failed or answered malformed; the call returns the parsed candles of
\* the first well-formed response and requests nothing after it; it throws the
\* proxy error exactly when all three failed.
C22_ProxyOrder ==
    /\ Len(proxyLog) <= 3
    /\ \A k \in 1..Len(proxyLog) :
        /\ proxyLog[k].proxy = ProxyOrder[k]
        /\ proxyLog[k].sym = rangeSym
        /\ \A j \in 1..(k - 1) : Failed(proxyLog[j])
    /\ rangePc \in {"json1", "json2", "json3"} <=>
            (Len(proxyLog) > 0 /\ Reading(proxyLog[Len(proxyLog)]))
    /\ rangePc = "returned" <=>
            (Len(proxyLog) > 0 /\ WellFormed(proxyLog[Len(proxyLog)]))
    /\ rangePc = "returned" =>
            LET quote == DocOf(proxyLog[Len(proxyLog)]).result[1]
            IN  rangeValue = Returned(ParsedData(quote.first, quote.last),
                                      quote.meta)
    /\ rangePc = "thrown" <=>
            (Len(proxyLog) = 3 /\ \A k \in 1..3 : Failed(proxyLog[k]))
    /\ rangePc = "thrown" => rangeValue = Thrown

\* the second proxy answered well-formed after the first answered ok with
\* a body that was read and found malformed
C22_Witness ==
    /\ rangePc = "returned"
    /\ Len(proxyLog) = 2
    /\ proxyLog[1].response.status = "ok"
    /\ proxyLog[1].response.body # Unread
    /\ Len(rangeValue.parsedData) > 0

\* a fetchDataRange that failed, or whose response holds no candle
FailedOrEmpty ==
    {Thrown} \cup {Returned(<<>>, FeedMeta(w, OtherSymbol)) : w \in MetaWays}

\* a load-more request that fails or comes back empty leaves the candles,
\* the displayed symbol and the error as they are
LoadMoreQuiet ==
    \A req \in BagToSet(fetchingMore) :
        \A outcome \in FailedOrEmpty :
            handleLoadMoreThen(req, outcome) =>
                UNCHANGED <<data, displaySymbol, error>>

\* an initial load that fails or comes back empty sets an error and leaves
\* the sequence empty
InitialLoadError ==
    \A r \in 1..Len(fetching) :
        \A outcome \in FailedOrEmpty :
            fetchStockDataThen(r, outcome) =>
                error' # "null" /\ data' = <<>>

\* C23: a load-more request that fails or returns an empty batch leaves the
\* candle sequence, the displayed symbol and the error state unchanged; a
\* failed or empty initial load sets an error and leaves the sequence empty.
C23_NoMoreHistory == [][LoadMoreQuiet /\ InitialLoadError]_vars

LoadMoreQuietAlways == [][LoadMoreQuiet]_vars

\* the roles in the order they are set
RoleOrder == <<"p0", "p1", "p2">>

\* C24: confirm appends the pivot of the next role, with the selected index,
\* the date of the selected candle and its low (P0, P2) or its high (P1),
\* and clears the selection; it can be pressed whenever a candle is selected
\* and fewer than three pivots are set; confirmSetPoint called without a
\* selection changes nothing.
C24_Confirm ==
    /\ [][confirmSetPoint =>
            /\ selection # null /\ Len(points) < 3
            /\ points' = Append(points,
                   [index |-> selection,
                    date |-> data[selection + 1].date,
                    price |-> IF Len(points) = 1
                              THEN data[selection + 1].high
                              ELSE data[selection + 1].low,
                    type |-> RoleOrder[Len(points) + 1]])
            /\ selection' = null]_vars
    /\ []((mounted /\ ~rendered /\ selectionData /\ Len(points) < 3) =>
            ENABLED <<confirmSetPoint>>_points)
    /\ []((mounted /\ ~rendered /\ selection = null) =>
            ~ENABLED <<confirmSetPointCalled>>_<<points, selection>>)

\* P0 and P1 were confirmed on a candle whose high is above its low: P1
\* holds the high, and the selection is cleared
C24_Witness ==
    /\ Len(points) = 2 /\ selection = null /\ ~rendered
    /\ points[1].index < Len(data) /\ points[2].index < Len(data)
    /\ points[1].price = data[points[1].index + 1].low
    /\ points[2].price = data[points[2].index + 1].high
    /\ points[2].date = data[points[2].index + 1].date
    /\ RLt(points[1].price, points[2].price)

\* the symbol the sequence on screen is of: the one displayed, or while
\* none is displayed the one last asked for
SequenceSymbol ==
    IF displaySymbol # "" THEN displaySymbol ELSE QuerySymbol(symbol)

\* C25: a history response adds candles to the sequence only when it was
\* requested for the symbol the sequence is of; a response for symbol A that
\* arrives after a load of symbol B has started is not merged.
C25_NoCrossMerge ==
    [][\A req \in BagToSet(fetchingMore) :
        \A outcome \in HistoryOutcomes(req, 0..MaxBatch, BOOLEAN) :
            (handleLoadMoreThen(req, outcome) /\ data' # data) =>
                req.sym = SequenceSymbol]_vars

\* C26: once every initial load has settled, the candles and displaySymbol
\* are of the symbol asked for last, and loading is true while an initial load
\* is in flight.
C26_LastLoadWins ==
    /\ (fetching = <<>> /\ displaySymbol # "") =>
            displaySymbol = QuerySymbol(symbol)
    /\ Len(fetching) > 0 => loading

\* C27: when candles were prepended during a drag and the layout effect has
\* shifted the offset by their number, a move at the position the pointer
\* already has leaves the offset at the shifted value.
C27_DragAnchored ==
    [][(pointer.shifted > 0 /\ pointerRest) => offset' = offset]_vars

\* C28: the selection is null or an index of a candle of the sequence, and
\* when candles are put in front of the sequence the layout effect moves a
\* selection by their number.
C28_SelectionValid ==
    selection # null => (0 <= selection /\ selection < Len(data))

SelectionShifted ==
    [][(Effects /\ Len(data) > prevDataLen /\ selection # null) =>
          selection' = selection + (Len(data) - prevDataLen)]_vars

\* the result a fresh calculator holds once the prices of the chart's three
\* pivots are entered, P3 left empty, and the chart's ratio is selected
CalculatorOnPivots ==
    LogicCore([p0 |-> mappedPoints[1].price, p1 |-> mappedPoints[2].price,
               p2 |-> mappedPoints[3].price, p3 |-> NoInput,
               current |-> NoInput],
              chartFibRatio, INITIAL_RESULT)

\* the projected prices are the calculator's targets
SamePrices(res) ==
    /\ projections.p3.price = res.w3Gold
    /\ projections.p4.price = res.w4Target
    /\ projections.p5.price = res.w5Target

\* C29: the chart projects only once three pivots are set, and its projected
\* prices of waves 3, 4 and 5 are the w3Gold, w4Target and w5Target the
\* calculator gives for the same three prices and ratio with no P3.
C29_ProjectionAgrees ==
    IF Len(mappedPoints) < 3 THEN projections = NoProjection
    ELSE /\ projections # NoProjection
         /\ CalculatorOnPivots.isValid
         /\ SamePrices(CalculatorOnPivots)

\* where the calculator accepts the three prices, the prices agree
AgreesWhereValid ==
    (Len(mappedPoints) = 3 /\ CalculatorOnPivots.isValid) =>
        SamePrices(CalculatorOnPivots)

AgreesWitness ==
    /\ Len(mappedPoints) = 3
    /\ CalculatorOnPivots.isValid
    /\ chartFibRatio = FIB_618

\* C30: the pan mode and the pinch mode are never on together, whatever
\* mouse and touch events came before; a release turns both off.
C30_Exclusive == ~(isDragging /\ isPinching)

\* a release turns both modes off
ReleaseClears == [][stopDrag => (~isDragging' /\ ~isPinching')]_vars

====
